---- MODULE Spec2Model ----
(***************************************************************************)
(* Modbus-to-MQTT gateway (src/app.js): the poll cycle                     *)
(* readModbusDataWithCycle, the address batcher groupAddressesDynamically, *)
(* the connection state machine connectModbus / scheduleReconnect and the  *)
(* alarm-status query getAlarmStatus.                                      *)
(*                                                                         *)
(* One step of the model is one run-to-completion piece of JavaScript: the *)
(* code between two awaits of an async function, or a whole timer          *)
(* callback.  Outcomes of the external capabilities (connectTCP,           *)
(* readHoldingRegisters, pool.getConnection, connection.query) are inputs. *)
(***************************************************************************)
EXTENDS Integers, Sequences, FiniteSets, TLC

VARIABLES
    modbusAddresses,            \* app.js:33  register map loaded from the configuration
    MAX_REGISTERS_PER_REQUEST,  \* app.js:43  configuration value
    deviceBase,                 \* the device: its register at address a holds deviceBase + a
    readCycleCounter,           \* app.js:65
    modbusConnected,            \* app.js:66
    reconnectTimeout,           \* app.js:67  handle of the last timer set, NoTimer for null
    timers,                     \* the runtime's timer table: handle -> "idle"|"pending"|"cancelled"
    connecting,                 \* number of connectModbus calls suspended at connectTCP
    handleOpen,                 \* whether modbusClient holds an open session
    invocations,                \* number of times setInterval has invoked readModbusDataWithCycle
    pc,                         \* per cycle: where the invocation is suspended
    groupedAddresses,           \* per cycle: local groupedAddresses
    groupIndex,                 \* per cycle: position of the for..of loop over groupedAddresses
    payload,                    \* per cycle: local payload
    alarmPayload,               \* per cycle: local alarmPayload
    readingSuccessful,          \* per cycle: local readingSuccessful
    reads,                      \* per cycle: the readHoldingRegisters calls issued
    published,                  \* per cycle: the messages handed to mqttClient.publish
    connection,                 \* per cycle: local connection of getAlarmStatus:
                                \* "null", a handle "held", or a handle "released"
    poolInUse                   \* handles of the MariaDB pool acquired and not released

vars == << modbusAddresses, MAX_REGISTERS_PER_REQUEST, deviceBase, readCycleCounter,
           modbusConnected, reconnectTimeout, timers, connecting, handleOpen,
           invocations, pc, groupedAddresses, groupIndex, payload,
           alarmPayload, readingSuccessful, reads, published, connection, poolInUse >>

configVars == << modbusAddresses, MAX_REGISTERS_PER_REQUEST, deviceBase >>

sessionVars == << modbusConnected, reconnectTimeout, timers, connecting, handleOpen >>

cycleVars == << pc, groupedAddresses, groupIndex, payload, alarmPayload,
                readingSuccessful, reads, published, connection >>

-----------------------------------------------------------------------------
(* Bounds of the model *)

\* invocations of readModbusDataWithCycle that may be in progress at once
MaxCycles == 2

\* invocations of readModbusDataWithCycle by the poll timer
MaxInvocations == 3

\* connectModbus calls that may be suspended at connectTCP at once
MaxConnecting == 2

\* timer handles the runtime hands out before reusing a dead one
MaxTimers == 3

\* largest address of the register maps the batcher is checked on
MaxAddr == 4

\* largest max_registers_per_request the batcher is checked on
MaxBatch == 3

Slots == 1..MaxCycles

TimerIds == 1..MaxTimers

\* null (app.js:67)
NoTimer == 0

-----------------------------------------------------------------------------
(* Configuration: topics, the register map *)

MQTT_TOPIC == "mqtt_topic"

MQTT_ALARM_TOPIC == "mqtt_alarm_topic"

MQTT_STATUS_TOPIC == "mqtt_status_topic"

\* A topic is a string, modelled as its sequence of characters.
TopicPlain == << "T", "_", "A" >>

TopicLowPriority == << "T", "_", "R", "_", "B" >>

\* The factor of a register is a decimal number; the model keeps it in tenths,
\* so factor 1 stands for 0.1 and factor 10 for 1.0, and values are in tenths too.
Entry(t, f, a) == [topic |-> t, factor |-> f, alarm |-> a]

\* no registers configured
MapEmpty == << >>

\* three registers in two runs; 1 is low priority, 3 is alarm-eligible
MapThree == (0 :> Entry(TopicPlain, 1, FALSE)) @@
            (1 :> Entry(TopicLowPriority, 10, FALSE)) @@
            (3 :> Entry(TopicPlain, 1, TRUE))

\* two adjacent registers, none alarm-eligible
MapNoAlarm == (0 :> Entry(TopicPlain, 10, FALSE)) @@
              (1 :> Entry(TopicLowPriority, 1, FALSE))

AddressMaps == { MapEmpty, MapThree, MapNoAlarm }

BatchSizes == { 1, 2 }

\* words the device may hold at address 0; its register at address a holds
\* that word + a
WordBases == { 100, 232 }

-----------------------------------------------------------------------------
(* groupAddressesDynamically (app.js:70-97) *)

RECURSIVE SortAscending(_)
\* Object.keys(...).map(Number).sort((a, b) => a - b)
SortAscending(S) ==
    IF S = {} THEN << >>
    ELSE LET m == CHOOSE x \in S : \A y \in S : x <= y
         IN  << m >> \o SortAscending(S \ {m})

\* app.js:89 with >= written as > : a full group takes one address more
StartsNewGroup_OffByOne(prevAddress, currentAddress, currentGroup) ==
    \/ currentAddress - prevAddress > 1
    \/ Len(currentGroup) > MAX_REGISTERS_PER_REQUEST

\* the condition of app.js:89
StartsNewGroup(prevAddress, currentAddress, currentGroup) ==
    \/ currentAddress - prevAddress > 1
    \/ Len(currentGroup) >= MAX_REGISTERS_PER_REQUEST

RECURSIVE GroupLoop(_, _, _, _)
\* the for loop of app.js:85-94 from index i on, then app.js:95-96
GroupLoop(addresses, i, grouped, currentGroup) ==
    IF i > Len(addresses)
    THEN IF Len(currentGroup) > 0 THEN Append(grouped, currentGroup) ELSE grouped
    ELSE LET prevAddress == addresses[i - 1]
             currentAddress == addresses[i]
         IN  IF StartsNewGroup(prevAddress, currentAddress, currentGroup)
             THEN GroupLoop(addresses, i + 1, Append(grouped, currentGroup),
                            << currentAddress >>)
             ELSE GroupLoop(addresses, i + 1, grouped,
                            Append(currentGroup, currentAddress))

groupAddressesDynamically ==
    LET addresses == SortAscending(DOMAIN modbusAddresses)
    IN  IF Len(addresses) = 0
        THEN << >>
        ELSE GroupLoop(addresses, 2, << >>, << addresses[1] >>)

-----------------------------------------------------------------------------
(* Initial state: module scope of app.js and main() *)

InitCycles ==
    /\ pc = [s \in Slots |-> "idle"]
    /\ groupedAddresses = [s \in Slots |-> << >>]
    /\ groupIndex = [s \in Slots |-> 0]
    /\ payload = [s \in Slots |-> << >>]
    /\ alarmPayload = [s \in Slots |-> << >>]
    /\ readingSuccessful = [s \in Slots |-> TRUE]
    /\ reads = [s \in Slots |-> << >>]
    /\ published = [s \in Slots |-> << >>]
    /\ connection = [s \in Slots |-> "null"]

\* main() has called connectModbus(), which is suspended at connectTCP, and
\* has armed the poll timer.
Init ==
    /\ modbusAddresses \in AddressMaps
    /\ MAX_REGISTERS_PER_REQUEST \in BatchSizes
    /\ deviceBase \in WordBases
    /\ readCycleCounter = 0
    /\ modbusConnected = FALSE
    /\ reconnectTimeout = NoTimer
    /\ timers = [i \in TimerIds |-> "idle"]
    /\ connecting = 1
    /\ handleOpen = FALSE
    /\ invocations = 0
    /\ poolInUse = 0
    /\ InitCycles

-----------------------------------------------------------------------------
(* Timers of the runtime: setTimeout / clearTimeout *)

\* clearTimeout(h): a pending timer is cancelled, any other handle is left alone
clearTimeout(t, h) ==
    IF h # NoTimer /\ t[h] = "pending" THEN [t EXCEPT ![h] = "cancelled"] ELSE t

\* handles setTimeout may return: not pending and not the one reconnectTimeout holds
FreeTimers(t) == { i \in TimerIds : t[i] # "pending" /\ i # reconnectTimeout }

PendingTimers == { i \in TimerIds : timers[i] = "pending" }

\* setTimeout(callback, 10000) on timer table t: the new handle is armed
setTimeout(t) ==
    LET h == CHOOSE i \in FreeTimers(t) : \A j \in FreeTimers(t) : i <= j
    IN  /\ timers' = [t EXCEPT ![h] = "pending"]
        /\ reconnectTimeout' = h

\* scheduleReconnect without its clearTimeout (app.js:139-141 left out)
scheduleReconnect_NoClear ==
    /\ FreeTimers(timers) # {}
    /\ setTimeout(timers)

\* scheduleReconnect (app.js:138-146)
scheduleReconnect ==
    LET cleared == IF reconnectTimeout # NoTimer
                   THEN clearTimeout(timers, reconnectTimeout)
                   ELSE timers
    IN  /\ FreeTimers(cleared) # {}
        /\ setTimeout(cleared)

-----------------------------------------------------------------------------
(* connectModbus (app.js:124-135) and the reconnect timer callback *)

\* connectTCP resolved: app.js:127-129
ConnectOk ==
    /\ connecting > 0
    /\ connecting' = connecting - 1
    /\ modbusConnected' = TRUE
    /\ handleOpen' = TRUE
    /\ UNCHANGED << reconnectTimeout, timers >>
    /\ UNCHANGED << configVars, cycleVars, readCycleCounter, invocations, poolInUse >>

\* app.js:130-134 without the call of scheduleReconnect
ConnectFail_NoReschedule ==
    /\ connecting > 0
    /\ connecting' = connecting - 1
    /\ modbusConnected' = FALSE
    /\ UNCHANGED << reconnectTimeout, timers, handleOpen >>
    /\ UNCHANGED << configVars, cycleVars, readCycleCounter, invocations, poolInUse >>

\* connectTCP rejected: app.js:130-134 (close() is not called here)
ConnectFail ==
    /\ connecting > 0
    /\ connecting' = connecting - 1
    /\ modbusConnected' = FALSE
    /\ scheduleReconnect
    /\ UNCHANGED handleOpen
    /\ UNCHANGED << configVars, cycleVars, readCycleCounter, invocations, poolInUse >>

\* the callback of app.js:142-145 only logging, without its connectModbus()
TimerFire_NoConnect(h) ==
    /\ timers[h] = "pending"
    /\ connecting < MaxConnecting
    /\ timers' = [timers EXCEPT ![h] = "idle"]
    /\ UNCHANGED << connecting, modbusConnected, reconnectTimeout, handleOpen >>
    /\ UNCHANGED << configVars, cycleVars, readCycleCounter, invocations, poolInUse >>

\* the callback of app.js:142-145 runs: connectModbus() is called and suspends
\* at connectTCP
TimerFire(h) ==
    /\ timers[h] = "pending"
    /\ connecting < MaxConnecting
    /\ timers' = [timers EXCEPT ![h] = "idle"]
    /\ connecting' = connecting + 1
    /\ UNCHANGED << modbusConnected, reconnectTimeout, handleOpen >>
    /\ UNCHANGED << configVars, cycleVars, readCycleCounter, invocations, poolInUse >>

-----------------------------------------------------------------------------
(* readModbusDataWithCycle (app.js:149-250) *)

\* the word the device holds in its register at an address
WordAt(base, address) == base + address

\* data.data of readHoldingRegisters(startAddress, count), indexed from 0
RegisterWords(base, startAddress, count) ==
    [k \in 0..(count - 1) |-> WordAt(base, startAddress + k)]

\* the dataPoint of app.js:177-193 indexing data.data without the offset
\* (every address of a group gets the group's first word)
DataPoint_FirstWord(address, startAddress, data) ==
    LET entry == modbusAddresses[address]
    IN  [address |-> address,
         value |-> data[0] * entry.factor,
         topic |-> entry.topic,
         alarm |-> entry.alarm,
         factor |-> entry.factor]

\* the dataPoint of app.js:177-193 (the fields copied unchanged from the entry
\* besides topic, alarm and factor are left out)
DataPoint(address, startAddress, data) ==
    LET entry == modbusAddresses[address]
    IN  [address |-> address,
         value |-> data[address - startAddress] * entry.factor,
         topic |-> entry.topic,
         alarm |-> entry.alarm,
         factor |-> entry.factor]

\* group.forEach of app.js:176-200: the data points of one group, in order
GroupPoints(group, startAddress, data) ==
    [k \in 1..Len(group) |-> DataPoint(group[k], startAddress, data)]

IsAlarm(dataPoint) == dataPoint.alarm

\* mqttClient.publish(topic, JSON.stringify(message)) on the log of a cycle
publish(log, topic, message) ==
    Append(log, [topic |-> topic, payload |-> message])

\* app.js:214-240 without the test of readingSuccessful: publishes what was
\* read before the failure
PublishResults_IgnoresFailure(log, ok, pl, apl) ==
    LET afterTelemetry == IF Len(pl) > 0 THEN publish(log, MQTT_TOPIC, pl) ELSE log
    IN  IF Len(apl) > 0
        THEN publish(afterTelemetry, MQTT_ALARM_TOPIC, apl)
        ELSE afterTelemetry

\* app.js:214-228 without the test of alarmPayload.length (app.js:221)
PublishResults_AlwaysAlarm(log, ok, pl, apl) ==
    IF ok
    THEN LET afterTelemetry == IF Len(pl) > 0 THEN publish(log, MQTT_TOPIC, pl) ELSE log
         IN  publish(afterTelemetry, MQTT_ALARM_TOPIC, apl)
    ELSE log

\* app.js:214-228 and 238-240: what the cycle publishes once the loop is left
PublishResults(log, ok, pl, apl) ==
    IF ok
    THEN LET afterTelemetry == IF Len(pl) > 0 THEN publish(log, MQTT_TOPIC, pl) ELSE log
         IN  IF Len(apl) > 0
             THEN publish(afterTelemetry, MQTT_ALARM_TOPIC, apl)
             ELSE afterTelemetry
    ELSE log

\* modbusClient.readHoldingRegisters(startAddress, count) for a group
\* (app.js:170-174), added to the calls of a cycle
IssueRead(log, group) ==
    LET startAddress == group[1]
        count == group[Len(group)] - startAddress + 1
    IN  Append(log, [startAddress |-> startAddress, count |-> count])

\* the slot a new invocation takes
FreeSlot(s) ==
    /\ pc[s] = "idle"
    /\ \A r \in Slots : pc[r] = "idle" => s <= r

\* app.js:150-153 handling the missing connection like a failed read
\* (scheduleReconnect as in app.js:207-210)
PollSkipNotConnected_AsFailure ==
    /\ invocations < MaxInvocations
    /\ invocations' = invocations + 1
    /\ ~modbusConnected
    /\ scheduleReconnect
    /\ UNCHANGED << modbusConnected, connecting, handleOpen >>
    /\ UNCHANGED << configVars, cycleVars, readCycleCounter, poolInUse >>

\* the poll timer of app.js:255 invokes the function; app.js:150-153
PollSkipNotConnected ==
    /\ invocations < MaxInvocations
    /\ invocations' = invocations + 1
    /\ ~modbusConnected
    /\ UNCHANGED << configVars, sessionVars, cycleVars, readCycleCounter, poolInUse >>

\* app.js:160-164 returning without readCycleCounter++
PollSkipNoAddresses_NoIncrement ==
    /\ invocations < MaxInvocations
    /\ invocations' = invocations + 1
    /\ modbusConnected
    /\ Len(groupAddressesDynamically) = 0
    /\ UNCHANGED << configVars, sessionVars, cycleVars, readCycleCounter, poolInUse >>

\* the poll timer invokes the function; app.js:158-164
PollSkipNoAddresses ==
    /\ invocations < MaxInvocations
    /\ invocations' = invocations + 1
    /\ modbusConnected
    /\ Len(groupAddressesDynamically) = 0
    /\ readCycleCounter' = readCycleCounter + 1
    /\ UNCHANGED << configVars, sessionVars, cycleVars, poolInUse >>

\* the poll timer invokes the function; app.js:155-174: up to the await of the
\* first readHoldingRegisters
PollStart(s) ==
    /\ invocations < MaxInvocations
    /\ invocations' = invocations + 1
    /\ modbusConnected
    /\ FreeSlot(s)
    /\ Len(groupAddressesDynamically) # 0
    /\ pc' = [pc EXCEPT ![s] = "read"]
    /\ groupedAddresses' = [groupedAddresses EXCEPT ![s] = groupAddressesDynamically]
    /\ groupIndex' = [groupIndex EXCEPT ![s] = 1]
    /\ payload' = [payload EXCEPT ![s] = << >>]
    /\ alarmPayload' = [alarmPayload EXCEPT ![s] = << >>]
    /\ readingSuccessful' = [readingSuccessful EXCEPT ![s] = TRUE]
    /\ reads' = [reads EXCEPT ![s] = IssueRead(<< >>, groupAddressesDynamically[1])]
    /\ published' = [published EXCEPT ![s] = << >>]
    /\ connection' = [connection EXCEPT ![s] = "null"]
    /\ UNCHANGED << configVars, sessionVars, readCycleCounter, poolInUse >>

\* readHoldingRegisters resolved, with a publish of the group's data points
\* inside the loop (one telemetry message per group)
ReadOk_PublishPerGroup(s) ==
    /\ pc[s] = "read"
    /\ LET group == groupedAddresses[s][groupIndex[s]]
           startAddress == group[1]
           count == group[Len(group)] - startAddress + 1
           data == RegisterWords(deviceBase, startAddress, count)
           points == GroupPoints(group, startAddress, data)
           pl == payload[s] \o points
           apl == alarmPayload[s] \o SelectSeq(points, IsAlarm)
       IN  /\ payload' = [payload EXCEPT ![s] = pl]
           /\ alarmPayload' = [alarmPayload EXCEPT ![s] = apl]
           /\ IF groupIndex[s] < Len(groupedAddresses[s])
              THEN /\ groupIndex' = [groupIndex EXCEPT ![s] = groupIndex[s] + 1]
                   /\ reads' = [reads EXCEPT ![s] =
                                  IssueRead(reads[s], groupedAddresses[s][groupIndex[s] + 1])]
                   /\ published' = [published EXCEPT ![s] =
                                      publish(published[s], MQTT_TOPIC, points)]
                   /\ UNCHANGED pc
              ELSE /\ published' = [published EXCEPT ![s] =
                                      PublishResults(published[s], readingSuccessful[s],
                                                     points, apl)]
                   /\ pc' = [pc EXCEPT ![s] = "getConnection"]
                   /\ UNCHANGED << groupIndex, reads >>
    /\ UNCHANGED << groupedAddresses, readingSuccessful, connection >>
    /\ UNCHANGED << configVars, sessionVars, readCycleCounter, invocations, poolInUse >>

\* readHoldingRegisters resolved: app.js:176-202, then either the next
\* iteration up to its await (app.js:169-174) or, after the last group,
\* app.js:214-232 up to the await of pool.getConnection (app.js:101-103).
\* Nothing in the outer try throws past the inner try/catch blocks, so the
\* catch of app.js:242-246 is not entered; an error raised while the data
\* points are built is caught at app.js:204 and is a ReadFail.
ReadOk(s) ==
    /\ pc[s] = "read"
    /\ LET group == groupedAddresses[s][groupIndex[s]]
           startAddress == group[1]
           count == group[Len(group)] - startAddress + 1
           data == RegisterWords(deviceBase, startAddress, count)
           points == GroupPoints(group, startAddress, data)
           pl == payload[s] \o points
           apl == alarmPayload[s] \o SelectSeq(points, IsAlarm)
       IN  /\ payload' = [payload EXCEPT ![s] = pl]
           /\ alarmPayload' = [alarmPayload EXCEPT ![s] = apl]
           /\ IF groupIndex[s] < Len(groupedAddresses[s])
              THEN /\ groupIndex' = [groupIndex EXCEPT ![s] = groupIndex[s] + 1]
                   /\ reads' = [reads EXCEPT ![s] =
                                  IssueRead(reads[s], groupedAddresses[s][groupIndex[s] + 1])]
                   /\ UNCHANGED << pc, published >>
              ELSE /\ published' = [published EXCEPT ![s] =
                                      PublishResults(published[s], readingSuccessful[s], pl, apl)]
                   /\ pc' = [pc EXCEPT ![s] = "getConnection"]
                   /\ UNCHANGED << groupIndex, reads >>
    /\ UNCHANGED << groupedAddresses, readingSuccessful, connection >>
    /\ UNCHANGED << configVars, sessionVars, readCycleCounter, invocations, poolInUse >>

\* app.js:204-211 without the break: the loop goes on to the next group
ReadFail_Continue(s) ==
    /\ pc[s] = "read"
    /\ readingSuccessful' = [readingSuccessful EXCEPT ![s] = FALSE]
    /\ modbusConnected' = FALSE
    /\ handleOpen' = FALSE
    /\ scheduleReconnect
    /\ IF groupIndex[s] < Len(groupedAddresses[s])
       THEN /\ groupIndex' = [groupIndex EXCEPT ![s] = groupIndex[s] + 1]
            /\ reads' = [reads EXCEPT ![s] =
                           IssueRead(reads[s], groupedAddresses[s][groupIndex[s] + 1])]
            /\ UNCHANGED << pc, readCycleCounter >>
       ELSE /\ readCycleCounter' = readCycleCounter + 1
            /\ pc' = [pc EXCEPT ![s] = "idle"]
            /\ UNCHANGED << groupIndex, reads >>
    /\ UNCHANGED << groupedAddresses, payload, alarmPayload, published, connection >>
    /\ UNCHANGED << configVars, connecting, invocations, poolInUse >>

\* app.js:230-237 moved out of the test of readingSuccessful: the status is
\* queried after a failed read too
ReadFail_StillQueriesStatus(s) ==
    /\ pc[s] = "read"
    /\ readingSuccessful' = [readingSuccessful EXCEPT ![s] = FALSE]
    /\ modbusConnected' = FALSE
    /\ handleOpen' = FALSE
    /\ scheduleReconnect
    /\ pc' = [pc EXCEPT ![s] = "getConnection"]
    /\ UNCHANGED << groupedAddresses, groupIndex, payload, alarmPayload, published,
                    connection, reads >>
    /\ UNCHANGED << configVars, connecting, invocations, poolInUse, readCycleCounter >>

\* readHoldingRegisters rejected: app.js:204-211, 238-240 and 247-249
ReadFail(s) ==
    /\ pc[s] = "read"
    /\ readingSuccessful' = [readingSuccessful EXCEPT ![s] = FALSE]
    /\ modbusConnected' = FALSE
    /\ handleOpen' = FALSE
    /\ scheduleReconnect
    /\ published' = [published EXCEPT ![s] =
                       PublishResults(published[s], FALSE, payload[s], alarmPayload[s])]
    /\ readCycleCounter' = readCycleCounter + 1
    /\ pc' = [pc EXCEPT ![s] = "idle"]
    /\ UNCHANGED << groupedAddresses, groupIndex, payload, alarmPayload, connection, reads >>
    /\ UNCHANGED << configVars, connecting, invocations, poolInUse >>

-----------------------------------------------------------------------------
(* getAlarmStatus (app.js:100-121) as called from app.js:231-237 *)

\* rows the alarm store may answer with (totalActive)
AlarmRows == { 0, 2 }

\* the finally of app.js:118-120 with the release left out
release_Missing(s) ==
    UNCHANGED << connection, poolInUse >>

\* the finally of app.js:118-120: if (connection) connection.release()
release(s) ==
    IF connection[s] # "null"
    THEN /\ connection' = [connection EXCEPT ![s] = "released"]
         /\ poolInUse' = poolInUse - 1
    ELSE UNCHANGED << connection, poolInUse >>

\* pool.getConnection resolved: app.js:103-104 up to the await of the query
\* (the pool's connectionLimit is taken to be at least MaxCycles)
GetConnectionOk(s) ==
    /\ pc[s] = "getConnection"
    /\ connection' = [connection EXCEPT ![s] = "held"]
    /\ poolInUse' = poolInUse + 1
    /\ pc' = [pc EXCEPT ![s] = "query"]
    /\ UNCHANGED << groupedAddresses, groupIndex, payload, alarmPayload,
                    readingSuccessful, reads, published >>
    /\ UNCHANGED << configVars, sessionVars, readCycleCounter, invocations >>

\* pool.getConnection rejected: app.js:115-120 (connection is null, nothing to
\* release), the error is caught at app.js:235-237, then app.js:247-249
GetConnectionFail(s) ==
    /\ pc[s] = "getConnection"
    /\ release(s)
    /\ readCycleCounter' = readCycleCounter + 1
    /\ pc' = [pc EXCEPT ![s] = "idle"]
    /\ UNCHANGED << groupedAddresses, groupIndex, payload, alarmPayload,
                    readingSuccessful, reads, published >>
    /\ UNCHANGED << configVars, sessionVars, invocations >>

\* the query resolved: app.js:114, 118-120, then app.js:233-234 and 247-249
QueryOk(s, row) ==
    /\ pc[s] = "query"
    /\ release(s)
    /\ published' = [published EXCEPT ![s] = publish(published[s], MQTT_STATUS_TOPIC, row)]
    /\ readCycleCounter' = readCycleCounter + 1
    /\ pc' = [pc EXCEPT ![s] = "idle"]
    /\ UNCHANGED << groupedAddresses, groupIndex, payload, alarmPayload,
                    readingSuccessful, reads >>
    /\ UNCHANGED << configVars, sessionVars, invocations >>

\* the query rejected with the error of app.js:117 reaching the outer catch
\* (app.js:242-246) instead of the catch of app.js:235-237
QueryFail_AsTransportError(s) ==
    /\ pc[s] = "query"
    /\ release(s)
    /\ modbusConnected' = FALSE
    /\ handleOpen' = FALSE
    /\ scheduleReconnect
    /\ readCycleCounter' = readCycleCounter + 1
    /\ pc' = [pc EXCEPT ![s] = "idle"]
    /\ UNCHANGED << groupedAddresses, groupIndex, payload, alarmPayload,
                    readingSuccessful, reads, published >>
    /\ UNCHANGED << configVars, connecting, invocations >>

\* the query rejected: app.js:115-120, caught at app.js:235-237, then 247-249
QueryFail(s) ==
    /\ pc[s] = "query"
    /\ release(s)
    /\ readCycleCounter' = readCycleCounter + 1
    /\ pc' = [pc EXCEPT ![s] = "idle"]
    /\ UNCHANGED << groupedAddresses, groupIndex, payload, alarmPayload,
                    readingSuccessful, reads, published >>
    /\ UNCHANGED << configVars, sessionVars, invocations >>

-----------------------------------------------------------------------------
(* The gateway *)

Next ==
    \/ ConnectOk
    \/ ConnectFail
    \/ \E h \in TimerIds : TimerFire(h)
    \/ PollSkipNotConnected
    \/ PollSkipNoAddresses
    \/ \E s \in Slots : PollStart(s)
    \/ \E s \in Slots : ReadOk(s)
    \/ \E s \in Slots : ReadFail(s)
    \/ \E s \in Slots : GetConnectionOk(s)
    \/ \E s \in Slots : GetConnectionFail(s)
    \/ \E s \in Slots, row \in AlarmRows : QueryOk(s, row)
    \/ \E s \in Slots : QueryFail(s)

Spec == Init /\ [][Next]_vars

\* Timer callbacks run once they are due, and every request to the field bus,
\* to the connection pool and to the alarm store is answered or fails after
\* the transport's own timeout.
Fairness ==
    /\ WF_vars(\E h \in TimerIds : TimerFire(h))
    /\ WF_vars(ConnectOk \/ ConnectFail)
    /\ WF_vars(PollSkipNotConnected \/ PollSkipNoAddresses \/ \E s \in Slots : PollStart(s))
    /\ WF_vars(\E s \in Slots : ReadFail(s) \/ ReadOk(s))
    /\ WF_vars(\E s \in Slots : GetConnectionOk(s) \/ GetConnectionFail(s))
    /\ WF_vars(\E s \in Slots : QueryFail(s) \/ \E row \in AlarmRows : QueryOk(s, row))

FairSpec == Spec /\ Fairness

\* The same program started with one of two register maps (none, or two
\* registers read in two groups of one), for the properties of the reconnect
\* loop, which do not look at the registers: main() as in Init.
InitSession ==
    /\ modbusAddresses \in { MapEmpty, MapNoAlarm }
    /\ MAX_REGISTERS_PER_REQUEST = 1
    /\ deviceBase = 100
    /\ readCycleCounter = 0
    /\ modbusConnected = FALSE
    /\ reconnectTimeout = NoTimer
    /\ timers = [i \in TimerIds |-> "idle"]
    /\ connecting = 1
    /\ handleOpen = FALSE
    /\ invocations = 0
    /\ poolInUse = 0
    /\ InitCycles

FairSpecSession == InitSession /\ [][Next]_vars /\ Fairness

-----------------------------------------------------------------------------
(* The batcher on its own: every register map over 0..MaxAddr and the map    *)
(* {10,11,12,20,21}, every max_registers_per_request in 1..MaxBatch and 10;  *)
(* the session is connected and the poll timer invokes the cycle, which      *)
(* calls groupAddressesDynamically at app.js:158.                            *)

DefaultEntry == Entry(TopicPlain, 10, FALSE)

ExampleAddresses == { 10, 11, 12, 20, 21 }

BatchAddressSets == (SUBSET (0..MaxAddr)) \cup { ExampleAddresses }

InitBatch ==
    /\ \E A \in BatchAddressSets : modbusAddresses = [a \in A |-> DefaultEntry]
    /\ MAX_REGISTERS_PER_REQUEST \in (1..MaxBatch) \cup { 10 }
    /\ deviceBase \in WordBases
    /\ readCycleCounter = 0
    /\ modbusConnected = TRUE
    /\ reconnectTimeout = NoTimer
    /\ timers = [i \in TimerIds |-> "idle"]
    /\ connecting = 0
    /\ handleOpen = TRUE
    /\ invocations = 0
    /\ poolInUse = 0
    /\ InitCycles

NextBatch ==
    \/ PollSkipNoAddresses
    \/ \E s \in Slots : PollStart(s)

SpecBatch == InitBatch /\ [][NextBatch]_vars

-----------------------------------------------------------------------------
(* Properties *)

RECURSIVE Flatten(_)
\* the groups concatenated in order
Flatten(groups) ==
    IF Len(groups) = 0 THEN << >> ELSE Head(groups) \o Flatten(Tail(groups))

\* the topics of the messages a cycle has published
TopicsOf(s) == { published[s][k].topic : k \in 1..Len(published[s]) }

ActiveCycles == { s \in Slots : pc[s] # "idle" }

\* C1: a poll cycle in which the read of a group failed has published nothing
\* to the telemetry topic and nothing to the alarm topic, whichever group
\* failed and however many groups were read before it.
C1_AllOrNothing ==
    \A s \in Slots :
        ~readingSuccessful[s] =>
            /\ MQTT_TOPIC \notin TopicsOf(s)
            /\ MQTT_ALARM_TOPIC \notin TopicsOf(s)

\* a cycle of three groups has failed on its second group, with the data
\* points of the first group already collected
C1_Witness ==
    \E s \in Slots :
        /\ ~readingSuccessful[s]
        /\ pc[s] = "idle"
        /\ Len(groupedAddresses[s]) = 3
        /\ groupIndex[s] = 2
        /\ Len(payload[s]) > 0

\* C2: at most one reconnect timer is pending in every reachable state.
C2_NoTimerStacking == Cardinality(PendingTimers) <= 1

\* scheduleReconnect has cancelled a pending timer and armed another one
C2_Witness ==
    /\ \E i \in TimerIds : timers[i] = "cancelled"
    /\ Cardinality(PendingTimers) = 1
    /\ reconnectTimeout \in PendingTimers

\* each group is a run of consecutive integers
ConsecutiveRuns(groups) ==
    \A g \in 1..Len(groups) :
        \A k \in 1..(Len(groups[g]) - 1) : groups[g][k + 1] = groups[g][k] + 1

\* C3: the groups of groupAddressesDynamically concatenate to the sorted
\* addresses of the register map, each group is a non-empty run of consecutive
\* integers of at most MAX_REGISTERS_PER_REQUEST members; no addresses give no
\* groups, and {10,11,12,20,21} with batch size 10 gives [[10,11,12],[20,21]].
\* The groups a started cycle works on are these groups.
C3_GroupsPartitionInput ==
    LET groups == groupAddressesDynamically
        sorted == SortAscending(DOMAIN modbusAddresses)
    IN  /\ Flatten(groups) = sorted
        /\ ConsecutiveRuns(groups)
        /\ \A g \in 1..Len(groups) :
               /\ Len(groups[g]) >= 1
               /\ Len(groups[g]) <= MAX_REGISTERS_PER_REQUEST
        /\ (DOMAIN modbusAddresses = {}) => (groups = << >>)
        /\ (DOMAIN modbusAddresses = ExampleAddresses /\ MAX_REGISTERS_PER_REQUEST = 10)
               => (groups = << << 10, 11, 12 >>, << 20, 21 >> >>)
        /\ \A s \in Slots : pc[s] = "read" => groupedAddresses[s] = groups

\* a cycle works on groups of which one was closed because it was full and
\* another because of a gap in the addresses
C3_Witness ==
    \E s \in Slots :
        /\ pc[s] = "read"
        /\ LET groups == groupedAddresses[s]
           IN  /\ \E g \in 1..(Len(groups) - 1) :
                      /\ Len(groups[g]) = MAX_REGISTERS_PER_REQUEST
                      /\ groups[g + 1][1] = groups[g][Len(groups[g])] + 1
               /\ \E g \in 1..(Len(groups) - 1) :
                      /\ Len(groups[g]) < MAX_REGISTERS_PER_REQUEST
                      /\ groups[g + 1][1] > groups[g][Len(groups[g])] + 1

\* C4: at most one invocation of readModbusDataWithCycle is in progress at
\* any time; the poll timer never starts one while another is suspended at
\* an await.
C4_CyclesSerialized == Cardinality(ActiveCycles) <= 1

\* src/Dockerfile:79: every fifth cycle includes the low-priority registers
Cadence == 5

\* the low-priority marker of src/Dockerfile:53
LowPriorityMarker == << "_", "R", "_" >>

\* topic.includes(marker)
TopicIncludes(topic, marker) ==
    \E i \in 0..(Len(topic) - Len(marker)) :
        \A k \in 1..Len(marker) : topic[i + k] = marker[k]

\* the registers a cycle with counter value cycleIndex is to read
SelectedAddresses(cycleIndex) ==
    IF cycleIndex % Cadence = 0
    THEN DOMAIN modbusAddresses
    ELSE { a \in DOMAIN modbusAddresses :
             ~TopicIncludes(modbusAddresses[a].topic, LowPriorityMarker) }

\* C5: a cycle that starts reading with the counter at cycleIndex reads the
\* full register set when cycleIndex mod 5 = 0 and only the registers whose
\* topic does not hold the low-priority marker otherwise.
C5_CadenceSelection ==
    [][\A s \in Slots :
          (pc[s] = "idle" /\ pc'[s] = "read") =>
              Flatten(groupedAddresses'[s]) =
                  SortAscending(SelectedAddresses(readCycleCounter))]_vars

\* C6: every invocation of the poll cycle that has returned has advanced the
\* counter by exactly one: the counter equals the number of invocations that
\* are no longer in progress.
C6_CounterCountsInvocations ==
    readCycleCounter = invocations - Cardinality(ActiveCycles)

StatusQueryInFlight == \E s \in Slots : pc[s] \in { "getConnection", "query" }

StatusCount(s) ==
    Cardinality({ k \in 1..Len(published[s]) : published[s][k].topic = MQTT_STATUS_TOPIC })

C8_ConnectedHasNoPendingTimer == modbusConnected => PendingTimers = {}

\* C9: every step that issues a readHoldingRegisters (the first read of a
\* cycle, or the read of the next group) leaves the session Connected.
C9_ReadsOnlyWhileConnected ==
    [][\A s \in Slots :
          (pc'[s] = "read" /\ (pc[s] # "read" \/ groupIndex'[s] # groupIndex[s]))
              => modbusConnected']_vars

\* C10: the step in which the read of a group fails makes the session
\* Disconnected, closes the handle, leaves exactly one reconnect timer
\* pending (the one reconnectTimeout holds), and ends the cycle without a
\* read for a later group.
C10_ReadFailureFailsFast ==
    [][\A s \in Slots :
          (pc[s] = "read" /\ readingSuccessful[s] /\ ~readingSuccessful'[s]) =>
              /\ ~modbusConnected'
              /\ ~handleOpen'
              /\ Cardinality({ i \in TimerIds : timers'[i] = "pending" }) = 1
              /\ timers'[reconnectTimeout'] = "pending"
              /\ pc'[s] = "idle"
              /\ groupIndex'[s] = groupIndex[s]]_vars

\* a read has failed on a group that is not the last one of its cycle; the
\* session is Disconnected, the handle closed and one timer pending
C10_Witness ==
    \E s \in Slots :
        /\ ~readingSuccessful[s]
        /\ pc[s] = "idle"
        /\ groupIndex[s] < Len(groupedAddresses[s])
        /\ ~modbusConnected
        /\ ~handleOpen
        /\ Cardinality(PendingTimers) = 1

\* C11: whenever the session is Disconnected and no connect attempt is in
\* flight (every earlier attempt has failed), a further connect attempt is
\* eventually started, however often that has happened before; and on every
\* behaviour in which connect attempts that keep being made eventually
\* succeed, a Disconnected session eventually becomes Connected again.
C11_ReconnectNeverGivesUp ==
    /\ (~modbusConnected /\ connecting = 0) ~> (connecting > 0)
    /\ SF_vars(ConnectOk) => (~modbusConnected ~> modbusConnected)

\* a connect attempt has failed and its retry failed as well: the session is
\* Disconnected, nothing is in flight and the next timer is pending
C11_Witness ==
    /\ ~modbusConnected
    /\ connecting = 0
    /\ invocations = 0
    /\ reconnectTimeout > 1
    /\ PendingTimers = { reconnectTimeout }

\* C12: the handles outstanding at the pool are exactly those of the calls
\* of getAlarmStatus that are awaiting their query; once a call has completed
\* (query resolved, query rejected, or no handle acquired) it holds no handle.
C12_PoolHandlesReleased ==
    /\ poolInUse = Cardinality({ s \in Slots : pc[s] = "query" })
    /\ \A s \in Slots : connection[s] = "held" <=> pc[s] = "query"

\* two calls of getAlarmStatus have completed, one whose query was rejected
\* after the handle was acquired and one that could not acquire a handle
C12_Witness ==
    \E s, r \in Slots :
        /\ pc[s] = "idle" /\ pc[r] = "idle"
        /\ MQTT_TOPIC \in TopicsOf(s) /\ MQTT_TOPIC \in TopicsOf(r)
        /\ connection[s] = "released" /\ StatusCount(s) = 0
        /\ connection[r] = "null"
        /\ poolInUse = 0

\* C13: the step in which a cycle's alarm-status query ends without a status
\* (no handle acquired, or the query rejected) publishes nothing, leaves the
\* connection flag, the handle, the reconnect timers and the connect attempts
\* as they were, uses up no poll tick, and ends the cycle normally (counter
\* advanced, slot free for a later tick).
C13_StatusFailureIsolated ==
    [][\A s \in Slots :
          (/\ pc[s] \in { "getConnection", "query" }
           /\ pc'[s] = "idle"
           /\ ~(MQTT_STATUS_TOPIC \in TopicsOf(s)')) =>
              /\ published' = published
              /\ UNCHANGED sessionVars
              /\ invocations' = invocations
              /\ readCycleCounter' = readCycleCounter + 1]_vars

\* a cycle's status query was rejected, the session is still Connected with
\* the handle open and no timer pending, and another cycle holds a fresh pool
\* handle for its own query
C13_Witness ==
    \E s, r \in Slots :
        /\ pc[s] = "idle"
        /\ connection[s] = "released"
        /\ StatusCount(s) = 0
        /\ modbusConnected /\ handleOpen /\ PendingTimers = {}
        /\ pc[r] = "query"
        /\ poolInUse = 1

\* the messages a cycle has published to a topic, in order
MessagesOn(s, topic) ==
    SelectSeq(published[s], LAMBDA m : m.topic = topic)

\* the cycle in slot s has read every one of its groups successfully
ReadsAllDone(s) ==
    /\ Len(groupedAddresses[s]) > 0
    /\ readingSuccessful[s]
    /\ pc[s] # "read"

\* the registers of the map that are alarm-eligible
AlarmEligible == { a \in DOMAIN modbusAddresses : modbusAddresses[a].alarm }

\* C14: a cycle that has read every group successfully has published exactly
\* one message to the telemetry topic; it has published one message to the
\* alarm topic if some register it read is alarm-eligible and none otherwise;
\* the alarm message holds exactly the telemetry data points of the
\* alarm-eligible registers.
C14_TelemetryOnceAlarmIffEligible ==
    \A s \in Slots :
        ReadsAllDone(s) =>
            LET telemetry == MessagesOn(s, MQTT_TOPIC)
                alarm == MessagesOn(s, MQTT_ALARM_TOPIC)
            IN  /\ Len(telemetry) = 1
                /\ Len(alarm) = IF AlarmEligible # {} THEN 1 ELSE 0
                /\ AlarmEligible # {} =>
                       alarm[1].payload =
                           SelectSeq(telemetry[1].payload,
                                     LAMBDA d : d.address \in AlarmEligible)

\* a cycle over three registers of which one is alarm-eligible has published
\* its three data points to the telemetry topic and one to the alarm topic
C14_Witness ==
    \E s \in Slots :
        /\ ReadsAllDone(s)
        /\ Len(MessagesOn(s, MQTT_TOPIC)[1].payload) = 3
        /\ Len(MessagesOn(s, MQTT_ALARM_TOPIC)) = 1
        /\ Len(MessagesOn(s, MQTT_ALARM_TOPIC)[1].payload) = 1

\* the addresses of the data points of a message payload, in order
AddressesOf(points) == [k \in 1..Len(points) |-> points[k].address]

\* C15: a cycle has issued one read per group it has reached, in the order
\* of the groups, each starting at its group's first address and each lying
\* wholly above the one before; nothing is published while reads are still
\* outstanding; the cycle publishes at most one telemetry message, only once
\* every group has been read, and that message holds one data point per
\* configured address in ascending address order.
C15_OrderedReadsOneAggregate ==
    \A s \in Slots :
        LET groups == groupedAddresses[s]
            telemetry == MessagesOn(s, MQTT_TOPIC)
        IN  /\ Len(reads[s]) = groupIndex[s]
            /\ \A k \in 1..Len(reads[s]) :
                   /\ reads[s][k].startAddress = groups[k][1]
                   /\ k > 1 =>
                         reads[s][k - 1].startAddress + reads[s][k - 1].count
                             <= reads[s][k].startAddress
            /\ pc[s] = "read" => published[s] = << >>
            /\ Len(telemetry) <= 1
            /\ Len(telemetry) = 1 =>
                   /\ Len(reads[s]) = Len(groups)
                   /\ AddressesOf(telemetry[1].payload)
                          = SortAscending(DOMAIN modbusAddresses)

\* a cycle over three registers in several groups has read all of them and
\* published the one telemetry message
C15_Witness ==
    \E s \in Slots :
        /\ Len(reads[s]) >= 2
        /\ Len(MessagesOn(s, MQTT_TOPIC)) = 1
        /\ AddressesOf(MessagesOn(s, MQTT_TOPIC)[1].payload) = << 0, 1, 3 >>

\* C16: a poll tick that gets as far as its address set (the session is
\* Connected) and finds no register configured issues no read, publishes
\* nothing, starts no status query, leaves the connection flag, the handle,
\* the reconnect timers and the connect attempts unchanged, and advances
\* readCycleCounter by one.
C16_EmptyCycleOnlyCounts ==
    [][(/\ invocations' = invocations + 1
        /\ modbusConnected
        /\ DOMAIN modbusAddresses = {}) =>
           /\ readCycleCounter' = readCycleCounter + 1
           /\ reads' = reads
           /\ published' = published
           /\ pc' = pc
           /\ UNCHANGED sessionVars
           /\ poolInUse' = poolInUse]_vars

\* two ticks have found the session Connected and the register map empty
C16_Witness ==
    /\ DOMAIN modbusAddresses = {}
    /\ modbusConnected
    /\ readCycleCounter = 2
    /\ \A s \in Slots : reads[s] = << >> /\ published[s] = << >>

\* C17: every read a cycle has issued asks for as many words as its group
\* has addresses, starting at the group's first address; every data point
\* the cycle has built carries its register's address and the word the device
\* holds at that very address multiplied by the factor configured for that
\* address; the published telemetry payload is those data points.
C17_ValueIsWordTimesFactor ==
    \A s \in Slots :
        /\ \A k \in 1..Len(reads[s]) :
               /\ reads[s][k].startAddress = groupedAddresses[s][k][1]
               /\ reads[s][k].count = Len(groupedAddresses[s][k])
        /\ \A k \in 1..Len(payload[s]) :
               LET d == payload[s][k]
               IN  /\ d.address \in DOMAIN modbusAddresses
                   /\ d.value = WordAt(deviceBase, d.address)
                                    * modbusAddresses[d.address].factor
        /\ \A k \in 1..Len(MessagesOn(s, MQTT_TOPIC)) :
               MessagesOn(s, MQTT_TOPIC)[k].payload = payload[s]

\* a cycle has published the register at address 3, factor 0.1, raw word
\* 235, as 23.5, together with a register read at offset 1 of a group of two
\* (values and factors are in tenths)
C17_Witness ==
    \E s \in Slots :
        /\ Len(MessagesOn(s, MQTT_TOPIC)) = 1
        /\ \E k \in 1..Len(reads[s]) : reads[s][k].count = 2
        /\ WordAt(deviceBase, 3) = 235
        /\ \E k \in 1..Len(payload[s]) :
               /\ payload[s][k].address = 3
               /\ payload[s][k].factor = 1
               /\ payload[s][k].value = 235

\* C18: a poll tick that finds the session not Connected issues no read,
\* starts no status query, publishes nothing, leaves the handle as it is and
\* neither arms nor cancels a reconnect timer; the connection flag and the
\* connect attempts in flight are untouched as well.
C18_DisconnectedTickIsPureSkip ==
    [][(invocations' = invocations + 1 /\ ~modbusConnected) =>
           /\ reads' = reads
           /\ pc' = pc
           /\ published' = published
           /\ poolInUse' = poolInUse /\ connection' = connection
           /\ handleOpen' = handleOpen
           /\ timers' = timers /\ reconnectTimeout' = reconnectTimeout
           /\ modbusConnected' = modbusConnected /\ connecting' = connecting]_vars

\* two ticks were skipped while the first connect attempt was still pending:
\* registers are configured, yet no cycle has ever started and no timer was
\* ever armed
C18_Witness ==
    /\ invocations = 2
    /\ ~modbusConnected
    /\ DOMAIN modbusAddresses # {}
    /\ \A s \in Slots : pc[s] = "idle" /\ reads[s] = << >> /\ published[s] = << >>
    /\ reconnectTimeout = NoTimer
    /\ connecting = 1

\* C19: at most one connect attempt (connectModbus awaiting connectTCP) is
\* in flight at any time.
C19_OneConnectAttemptAtATime == connecting <= 1

\* C20: in every reachable state in which modbusConnected is false, a
\* reconnect timer is pending or a connect attempt is in flight.
C20_DisconnectedIsDriven ==
    ~modbusConnected => (PendingTimers # {} \/ connecting > 0)

\* after a failed read and a failed reconnect the session is Disconnected
\* with no attempt in flight, and the timer armed by the failed attempt is
\* what drives the recovery
C20_Witness ==
    /\ ~modbusConnected
    /\ connecting = 0
    /\ \E s \in Slots : ~readingSuccessful[s]
    /\ reconnectTimeout > 1
    /\ PendingTimers = { reconnectTimeout }
    /\ \A s \in Slots : pc[s] = "idle"

====
